---------------------------- MODULE Spec2Model ----------------------------
(*************************************************************************)
(* Model of processVideoScenes (src/services/videoUtils.ts): the scene   *)
(* segmentation driver with its two strategies, the host video element   *)
(* it drives through 'loadedmetadata', 'seeked' and 'error' events, and  *)
(* the promise it returns.                                               *)
(*                                                                       *)
(* JavaScript numbers are IEEE-754 binary floating point, rounded to     *)
(* nearest, ties to even, after every arithmetic operation.  The model   *)
(* keeps that arithmetic and shortens the significand from 53 bits to    *)
(* MantBits bits, so that the values fit the model checker's integers.   *)
(* A number is a pair <<m, e>> standing for m * 2^e, with m = 0 and      *)
(* e = 0, or 2^(MantBits-1) <= |m| < 2^MantBits.                         *)
(*************************************************************************)
EXTENDS Integers, Sequences, FiniteSets, TLC

\* ------------------------------------------------------------------
\* Bounds of the model
\* ------------------------------------------------------------------

\* significand width of the modelled floating-point numbers
MantBits == 11

\* ------------------------------------------------------------------
\* Floating-point arithmetic (JavaScript Number)
\* ------------------------------------------------------------------

RECURSIVE Pow2(_)
Pow2(n) == IF n <= 0 THEN 1 ELSE 2 * Pow2(n - 1)

Abs(x) == IF x < 0 THEN 0 - x ELSE x

Sgn(x) == IF x < 0 THEN 0 - 1 ELSE 1

\* number of bits of a natural number (0 for 0)
RECURSIVE BitLen(_)
BitLen(n) == IF n <= 0 THEN 0 ELSE 1 + BitLen(n \div 2)

\* n / 2^s rounded to the nearest integer, ties to the even one (n >= 0)
RoundShift(n, s) ==
    IF s <= 0 THEN n
    ELSE LET q == n \div Pow2(s)
             r == n % Pow2(s)
             half == Pow2(s - 1)
         IN  IF r > half \/ (r = half /\ q % 2 = 1) THEN q + 1 ELSE q

\* the number nearest to m * 2^e: the rounding every operation ends with
Norm(m, e) ==
    IF m = 0 THEN <<0, 0>>
    ELSE LET a == Abs(m)
             len == BitLen(a)
         IN  IF len <= MantBits
             THEN <<Sgn(m) * a * Pow2(MantBits - len), e - (MantBits - len)>>
             ELSE LET s == len - MantBits
                      q == RoundShift(a, s)
                  IN  IF q = Pow2(MantBits)
                      THEN <<Sgn(m) * Pow2(MantBits - 1), e + s + 1>>
                      ELSE <<Sgn(m) * q, e + s>>

\* an integer as a number (exact up to 2^MantBits)
FromInt(n) == Norm(n, 0)

Zero == <<0, 0>>

\* a + b
FAdd(a, b) ==
    LET e == IF a[2] < b[2] THEN a[2] ELSE b[2]
    IN  Norm(a[1] * Pow2(a[2] - e) + b[1] * Pow2(b[2] - e), e)

\* a - b
FSub(a, b) == FAdd(a, <<0 - b[1], b[2]>>)

\* extra quotient bits kept before rounding a division
GuardBits == MantBits + 3

\* n / d * 2^e for integers n >= 0 and d > 0, correctly rounded: the quotient
\* is computed to more bits than a number holds, with a sticky bit
IntDiv(n, d, e) ==
    LET s == GuardBits + BitLen(d) - BitLen(n)
        k == IF s < 0 THEN 0 ELSE s
        q == (n * Pow2(k)) \div d
        sticky == IF (n * Pow2(k)) % d = 0 THEN 0 ELSE 1
    IN  Norm(2 * q + sticky, e - k - 1)

\* a / b for b # 0
FDiv(a, b) ==
    LET q == IntDiv(Abs(a[1]), Abs(b[1]), a[2] - b[2])
    IN  <<Sgn(a[1]) * Sgn(b[1]) * q[1], q[2]>>

\* i * a for an integer i (integers below 2^53 are exact in the code)
FMulInt(i, a) == Norm(i * a[1], a[2])

\* a < b, a <= b, a > b (exact comparisons)
FLess(a, b) ==
    LET e == IF a[2] < b[2] THEN a[2] ELSE b[2]
    IN  a[1] * Pow2(a[2] - e) < b[1] * Pow2(b[2] - e)

FLeq(a, b) == a = b \/ FLess(a, b)

FGreater(a, b) == FLess(b, a)

\* Math.min
FMin(a, b) == IF FLess(b, a) THEN b ELSE a

\* Math.floor, Math.ceil and Math.round, as integers
Floor(a) ==
    IF a[2] >= 0 THEN a[1] * Pow2(a[2]) ELSE a[1] \div Pow2(0 - a[2])

Ceil(a) ==
    IF a[2] >= 0 THEN a[1] * Pow2(a[2]) ELSE 0 - ((0 - a[1]) \div Pow2(0 - a[2]))

Round(a) ==
    IF a[2] >= 0 THEN a[1] * Pow2(a[2])
    ELSE (2 * a[1] + Pow2(0 - a[2])) \div Pow2(1 - a[2])

\* the number a decimal literal with one fractional digit denotes: n/10
Dec(n) == IntDiv(n, 10, 0)

\* ------------------------------------------------------------------
\* Inputs of a run
\* ------------------------------------------------------------------

\* longest video duration of the model, in tenths of a second
MaxDurTenths == 40

\* video.duration when it is NaN or Infinity
NaN == <<0, 1>>

\* video.duration: 0.0, 0.1, ... seconds, or not finite
Durations == {Dec(n) : n \in 0..MaxDurTenths} \cup {NaN}

\* options.fixedSegmentDuration, in tenths of a second (5, 8 and 10 s are
\* the App's choices); Zero stands for the option being absent or 0
SegTenths == {1, 3, 7, 10, 30, 50, 80, 100}

\* options.sampleRate, in tenths of a second
RateTenths == {10, 12, 15}

\* options.diffThreshold
Thresholds == {18, 40}

\* video.videoWidth and video.videoHeight (0 x 0: a file with no video track)
VideoDims == {<<0, 0>>, <<200, 100>>, <<640, 480>>, <<384, 375>>, <<1000, 1>>}

\* the luminance of a captured frame (the frames of the model are uniform)
Lums == {0, 18, 50}

\* the App's split choices: 0 is 'Frame by AI', the others are seconds
DurationChoices == {0, 5, 8, 10}

\* App.handleDurationSelect(choice): the fixedSegmentDuration it passes
SelectedOption(choice) == FromInt(choice)

\* ------------------------------------------------------------------
\* processVideoScenes: the pure parts
\* ------------------------------------------------------------------

\* a duration check that lets every value through
isFinite_Always(d) == TRUE

isFinite(d) == d # NaN

MAX_DIMENSION == 320

\* canvas width and height for a video of w x h pixels
Dimensions(w, h) ==
    IF w > MAX_DIMENSION \/ h > MAX_DIMENSION
    THEN LET ratio == IntDiv(w, h, 0)
         IN  IF w > h
             THEN <<MAX_DIMENSION, Round(FDiv(FromInt(MAX_DIMENSION), ratio))>>
             ELSE <<Round(FMulInt(MAX_DIMENSION, ratio)), MAX_DIMENSION>>
    ELSE <<w, h>>

\* a test that never takes the option for a segment length
UsesFixed_Never(opt) == FALSE

\* if (fixedSegmentDuration): the option is present and not 0
UsesFixed(opt) == opt # Zero

\* fixed mode: the number of segments
TotalSegments(dur, seg) == Ceil(FDiv(dur, seg))

\* fixed mode: start and end of segment k
SegStart(k, seg) == FMulInt(k, seg)

SegEnd(k, dur, seg) ==
    LET end == FAdd(SegStart(k, seg), seg)
    IN  IF FGreater(end, dur) THEN dur ELSE end

\* fixed mode: the time the thumbnail of segment k is sought at
ThumbTime(k, dur, seg) ==
    LET start == SegStart(k, seg)
        end == SegEnd(k, dur, seg)
    IN  FAdd(start, FDiv(FSub(end, start), FromInt(2)))

SeekTime(k, dur, seg) == FMin(ThumbTime(k, dur, seg), FSub(dur, Dec(1)))

\* the value passed to onProgress after done of total steps
Percent(done, total) == Round(FMulInt(100, IntDiv(done, total, 0)))

\* adaptive mode: the mean absolute luminance difference of two frames
\* (of two uniform frames: the difference of their luminances)
Score(prev, curr) == FromInt(Abs(prev - curr))

\* a capture loop that stops before a time equal to the duration
Continues_Strict(time, dur) == FLess(time, dur)

\* adaptive mode: the test of the capture loop
Continues(time, dur) == FLeq(time, dur)

\* a difference loop that stops one pair early
RECURSIVE Differences_StopEarly(_, _)
Differences_StopEarly(fr, k) ==
    IF k >= Len(fr) - 1 THEN <<>>
    ELSE <<[timestamp |-> fr[k + 1].time,
            diffScore |-> Score(fr[k].data, fr[k + 1].data),
            frameIndex |-> k]>> \o Differences_StopEarly(fr, k + 1)

\* a difference loop that records the index of the earlier frame of a pair
RECURSIVE Differences_EarlierIndex(_, _)
Differences_EarlierIndex(fr, k) ==
    IF k >= Len(fr) THEN <<>>
    ELSE <<[timestamp |-> fr[k].time,
            diffScore |-> Score(fr[k].data, fr[k + 1].data),
            frameIndex |-> k - 1]>> \o Differences_EarlierIndex(fr, k + 1)

\* adaptive mode: diffs, one entry for every frame but the first
RECURSIVE Differences(_, _)
Differences(fr, k) ==
    IF k >= Len(fr) THEN <<>>
    ELSE <<[timestamp |-> fr[k + 1].time,
            diffScore |-> Score(fr[k].data, fr[k + 1].data),
            frameIndex |-> k]>> \o Differences(fr, k + 1)

\* a cut test with the comparison turned round
IsCut_Inverted(score, thr) == FLess(score, thr)

\* a cut test that also cuts at a score equal to the threshold
IsCut_OrEqual(score, thr) == FLeq(thr, score)

\* the test that decides a cut
IsCut(score, thr) == FGreater(score, thr)

\* a cut placed at the earlier frame of the pair
EndIdx_Earlier(idx) == idx

\* the frame a cut at diff position idx ends the scene at
EndIdx(idx) == idx + 1

\* scene ids counted from 0
SceneId_ZeroBased(count) == count

\* the id of the scene pushed when count scenes are in the list
SceneId(count) == count + 1

\* a thumbnail index that leaves out the start of the scene
ThumbIdx_HalfEnd(startIdx, endIdx) == endIdx \div 2

\* a thumbnail taken from the first frame of the scene
ThumbIdx_First(startIdx, endIdx) == startIdx

\* the frame a scene from startIdx to endIdx takes its thumbnail from
ThumbIdx(startIdx, endIdx) == (startIdx + endIdx) \div 2

\* a final scene that ends at the last sampled frame
FinalEndTime_LastFrame(fr, dur) == fr[Len(fr)].time

\* the end of the final scene
FinalEndTime(fr, dur) == dur

\* adaptive mode: the pass over diffs; idx and sceneStartIdx count from 0 as
\* in the code, frames[k] is fr[k + 1]
RECURSIVE DetectCuts(_, _, _, _, _, _)
DetectCuts(fr, df, thr, idx, sceneStartIdx, acc) ==
    IF idx >= Len(df) THEN <<acc, sceneStartIdx>>
    ELSE IF IsCut(df[idx + 1].diffScore, thr)
         THEN LET endIdx == EndIdx(idx)
              IN  DetectCuts(fr, df, thr, idx + 1, endIdx,
                     Append(acc, [id |-> SceneId(Len(acc)),
                                  startTime |-> fr[sceneStartIdx + 1].time,
                                  endTime |-> fr[endIdx + 1].time,
                                  thumbnailDataUrl |->
                                     fr[ThumbIdx(sceneStartIdx, endIdx) + 1].dataUrl]))
         ELSE DetectCuts(fr, df, thr, idx + 1, sceneStartIdx, acc)

\* adaptive mode: the cuts, then the final scene
AdaptiveScenes(fr, df, thr, dur) ==
    LET cut == DetectCuts(fr, df, thr, 0, 0, <<>>)
        acc == cut[1]
        sceneStartIdx == cut[2]
    IN  IF Len(fr) > 0 /\ sceneStartIdx < Len(fr)
        THEN Append(acc, [id |-> SceneId(Len(acc)),
                          startTime |-> fr[sceneStartIdx + 1].time,
                          endTime |-> FinalEndTime(fr, dur),
                          thumbnailDataUrl |->
                             fr[ThumbIdx(sceneStartIdx, Len(fr) - 1) + 1].dataUrl])
        ELSE acc

\* ------------------------------------------------------------------
\* State
\* ------------------------------------------------------------------

VARIABLES
    duration,              \* video.duration
    sampleRate,            \* options.sampleRate
    diffThreshold,         \* options.diffThreshold
    fixedSegmentDuration,  \* options.fixedSegmentDuration, Zero when absent
    pc,                    \* "idle", "loading", "seeking", "returned"
    strategy,              \* "none", "fixed", "adaptive": the branch taken
    videoWidth,            \* video.videoWidth
    videoHeight,           \* video.videoHeight
    width, height,         \* the capture dimensions
    totalSegments, i,      \* fixed mode: segment count and loop index
    numSamples,            \* adaptive mode: Math.floor(duration / sampleRate)
    currentTime,           \* adaptive mode: the time of the next capture
    processedCount,        \* adaptive mode: captures done
    frames, diffs, scenes, \* the lists the run builds
    seekPending,           \* the video element is seeking
    listener,              \* a 'seeked' listener is attached
    videoError,            \* the video element has raised 'error'
    promise,               \* "pending", "resolved", "rejected"
    value,                 \* what the promise settled with
    urlCreated,            \* URL.createObjectURL was called
    revokeCalls,           \* calls of URL.revokeObjectURL
    progressLog,           \* the values passed to onProgress
    seekLog,               \* the times assigned to video.currentTime
    threw,                 \* a 'seeked' handler threw
    prev, curr,            \* two pixel buffers (imageData.data) to compare
    avgDiff,               \* their difference score, once computed
    file,                  \* App: the selected file (0: null), numbered as selected
    filesSelected,         \* App: how many files have been selected so far
    showDurationSelection, \* App state
    progress,              \* App: progress.status
    appScenes,             \* App: the scenes state
    selectedSceneIds,      \* App state
    isBatchAnalyzing,      \* App state
    isStopping,            \* App state
    stopBatchRef,          \* App: stopBatchRef.current
    runs,                  \* App: processVideoScenes calls awaited
    requests,              \* App: analyzeSceneFrame calls awaited
    batches,               \* App: the handleAnalyzeAll calls made so far
    timelapsePrompt,       \* Sidebar state
    isGenTimelapse,        \* Sidebar state
    sceneImages            \* Sidebar: argument of the awaited generateTimelapsePrompt call

videoVars == <<duration, sampleRate, diffThreshold, fixedSegmentDuration, pc,
          strategy, videoWidth, videoHeight,
          width, height, totalSegments, i, numSamples, currentTime,
          processedCount, frames, diffs, scenes, seekPending, listener,
          videoError, promise, value, urlCreated, revokeCalls, progressLog,
          seekLog, threw>>

pixelVars == <<prev, curr, avgDiff>>

appVars == <<file, filesSelected, showDurationSelection, progress, appScenes,
            selectedSceneIds, isBatchAnalyzing, isStopping, stopBatchRef,
            runs, requests, batches>>

sidebarVars == <<timelapsePrompt, isGenTimelapse, sceneImages>>

vars == <<videoVars, pixelVars, appVars, sidebarVars>>

dimVars == <<videoWidth, videoHeight, width, height>>

inputVars == <<duration, sampleRate, diffThreshold, fixedSegmentDuration>>

fixedVars == <<totalSegments, i>>

adaptiveVars == <<numSamples, currentTime, processedCount, frames, diffs>>

NoValue == [kind |-> "none"]

NoScore == "none"

\* no pixel buffers are being compared
PixelIdle == prev = <<>> /\ curr = <<>> /\ avgDiff = NoScore

\* no generateTimelapsePrompt call is awaited
NoCall == <<>>

\* the Sidebar as first rendered
SidebarIdle ==
    /\ timelapsePrompt = "null"
    /\ isGenTimelapse = FALSE
    /\ sceneImages = NoCall

\* the App component as first rendered
AppIdle ==
    /\ file = 0
    /\ filesSelected = 0
    /\ showDurationSelection = FALSE
    /\ progress = "idle"
    /\ appScenes = <<>>
    /\ selectedSceneIds = <<>>
    /\ isBatchAnalyzing = FALSE
    /\ isStopping = FALSE
    /\ stopBatchRef = FALSE
    /\ runs = {}
    /\ requests = {}
    /\ batches = <<>>

\* a run is one call; the options not read in fixed mode keep their defaults
VideoInit ==
    /\ duration \in Durations
    /\ \/ /\ fixedSegmentDuration \in {Dec(n) : n \in SegTenths}
          /\ sampleRate = FromInt(1)
          /\ diffThreshold = FromInt(18)
       \/ /\ fixedSegmentDuration = Zero
          /\ sampleRate \in {Dec(n) : n \in RateTenths}
          /\ diffThreshold \in {FromInt(n) : n \in Thresholds}
    /\ pc = "idle"
    /\ strategy = "none"
    /\ videoWidth = 0 /\ videoHeight = 0
    /\ width = 0 /\ height = 0
    /\ totalSegments = 0 /\ i = 0
    /\ numSamples = 0 /\ currentTime = Zero /\ processedCount = 0
    /\ frames = <<>> /\ diffs = <<>> /\ scenes = <<>>
    /\ seekPending = FALSE /\ listener = FALSE /\ videoError = FALSE
    /\ promise = "pending" /\ value = NoValue
    /\ urlCreated = FALSE /\ revokeCalls = 0
    /\ progressLog = <<>> /\ seekLog = <<>>
    /\ threw = FALSE

Init == VideoInit /\ PixelIdle /\ AppIdle /\ SidebarIdle

\* ------------------------------------------------------------------
\* The promise, the object URL and the video element
\* ------------------------------------------------------------------

\* resolve(v) or reject(v): only the first call settles the promise
Settle(kind, v) ==
    IF promise = "pending"
    THEN promise' = kind /\ value' = v
    ELSE UNCHANGED <<promise, value>>

Resolve(sc, df) == Settle("resolved", [kind |-> "result", scenes |-> sc, diffs |-> df])

Reject(msg) == Settle("rejected", [kind |-> "error", message |-> msg])

Revoke == revokeCalls' = revokeCalls + 1

\* a seek issued twice
Seek_Twice(t) ==
    /\ listener' = TRUE
    /\ seekPending' = TRUE
    /\ seekLog' = Append(Append(seekLog, t), t)

\* addEventListener("seeked", onSeeked); video.currentTime = t
Seek(t) ==
    /\ listener' = TRUE
    /\ seekPending' = TRUE
    /\ seekLog' = Append(seekLog, t)

\* ------------------------------------------------------------------
\* Actions
\* ------------------------------------------------------------------

\* processVideoScenes(videoFile, options) up to video.src = url
Call ==
    /\ UNCHANGED <<pixelVars, appVars, sidebarVars>>
    /\ pc = "idle"
    /\ \E ctx \in BOOLEAN :
          IF ~ctx
          THEN /\ Reject("Could not get canvas context")
               /\ pc' = "returned"
               /\ UNCHANGED urlCreated
          ELSE /\ urlCreated' = TRUE
               /\ pc' = "loading"
               /\ UNCHANGED <<promise, value>>
    /\ UNCHANGED <<inputVars, strategy, dimVars, fixedVars, adaptiveVars, scenes,
                   seekPending, listener, videoError, revokeCalls,
                   progressLog, seekLog, threw>>

\* video.onloadedmetadata with a duration that is not finite
MetadataNotFinite ==
    /\ UNCHANGED <<pixelVars, appVars, sidebarVars>>
    /\ pc = "loading" /\ ~videoError
    /\ ~isFinite(duration)
    /\ Revoke
    /\ Reject("Could not determine video duration")
    /\ pc' = "returned"
    /\ UNCHANGED <<inputVars, strategy, dimVars, fixedVars, adaptiveVars, scenes,
                   seekPending, listener, videoError, urlCreated,
                   progressLog, seekLog, threw>>

\* video.onloadedmetadata, fixed mode: up to the first await of the loop
MetadataFixed ==
    /\ UNCHANGED <<pixelVars, appVars, sidebarVars>>
    /\ pc = "loading" /\ ~videoError
    /\ isFinite(duration)
    /\ UsesFixed(fixedSegmentDuration)
    /\ \E dim \in VideoDims :
          /\ videoWidth' = dim[1]
          /\ videoHeight' = dim[2]
          /\ width' = Dimensions(dim[1], dim[2])[1]
          /\ height' = Dimensions(dim[1], dim[2])[2]
    /\ strategy' = "fixed"
    /\ LET total == TotalSegments(duration, fixedSegmentDuration)
       IN  /\ totalSegments' = total
           /\ i' = 0
           /\ IF 0 < total
              THEN /\ Seek(SeekTime(0, duration, fixedSegmentDuration))
                   /\ pc' = "seeking"
                   /\ UNCHANGED <<promise, value, revokeCalls>>
              ELSE /\ Revoke
                   /\ Resolve(<<>>, <<>>)
                   /\ pc' = "returned"
                   /\ UNCHANGED <<seekPending, listener, seekLog>>
    /\ UNCHANGED <<inputVars, adaptiveVars, scenes, videoError, urlCreated,
                   progressLog, threw>>

\* the 'seeked' handler of fixed mode and the loop up to its next await
SeekedFixed ==
    /\ UNCHANGED <<pixelVars, appVars, sidebarVars>>
    /\ pc = "seeking" /\ seekPending /\ listener /\ ~videoError
    /\ UsesFixed(fixedSegmentDuration)
    /\ LET start == SegStart(i, fixedSegmentDuration)
           end == SegEnd(i, duration, fixedSegmentDuration)
           dataUrl == seekLog[Len(seekLog)]
           pushed == Append(scenes, [id |-> SceneId(i), startTime |-> start,
                                     endTime |-> end, thumbnailDataUrl |-> dataUrl])
           next == i + 1
       IN  /\ scenes' = pushed
           /\ progressLog' = Append(progressLog, Percent(i + 1, totalSegments))
           /\ i' = next
           /\ IF next < totalSegments
              THEN /\ Seek(SeekTime(next, duration, fixedSegmentDuration))
                   /\ pc' = "seeking"
                   /\ UNCHANGED <<promise, value, revokeCalls>>
              ELSE /\ Revoke
                   /\ Resolve(pushed, diffs)
                   /\ pc' = "returned"
                   /\ listener' = FALSE
                   /\ seekPending' = FALSE
                   /\ UNCHANGED seekLog
    /\ UNCHANGED <<inputVars, strategy, dimVars, totalSegments, adaptiveVars,
                   videoError, urlCreated, threw>>

\* adaptive mode after the capture loop: differences, cuts, final scene,
\* release of the URL and resolve
FinishAdaptive(fr) ==
    LET df == Differences(fr, 1)
        sc == AdaptiveScenes(fr, df, diffThreshold, duration)
    IN  /\ diffs' = df
        /\ scenes' = sc
        /\ Revoke
        /\ Resolve(sc, df)
        /\ pc' = "returned"

\* video.onloadedmetadata, adaptive mode: up to the first await of the loop
MetadataAdaptive ==
    /\ UNCHANGED <<pixelVars, appVars, sidebarVars>>
    /\ pc = "loading" /\ ~videoError
    /\ isFinite(duration)
    /\ ~UsesFixed(fixedSegmentDuration)
    /\ \E dim \in VideoDims :
          /\ videoWidth' = dim[1]
          /\ videoHeight' = dim[2]
          /\ width' = Dimensions(dim[1], dim[2])[1]
          /\ height' = Dimensions(dim[1], dim[2])[2]
    /\ strategy' = "adaptive"
    /\ numSamples' = Floor(FDiv(duration, sampleRate))
    /\ currentTime' = Zero
    /\ processedCount' = 0
    /\ IF Continues(Zero, duration)
       THEN /\ Seek(Zero)
            /\ pc' = "seeking"
            /\ UNCHANGED <<promise, value, revokeCalls, scenes, diffs>>
       ELSE /\ FinishAdaptive(frames)
            /\ UNCHANGED <<seekPending, listener, seekLog>>
    /\ UNCHANGED <<inputVars, fixedVars, frames, videoError, urlCreated,
                   progressLog, threw>>

\* ctx.getImageData(0, 0, width, height) throws when a side is 0
GetImageDataThrows == width = 0 \/ height = 0

\* the 'seeked' handler of captureFrame and the loop up to its next await
SeekedAdaptive ==
    /\ UNCHANGED <<pixelVars, appVars, sidebarVars>>
    /\ pc = "seeking" /\ seekPending /\ listener /\ ~videoError
    /\ ~UsesFixed(fixedSegmentDuration)
    /\ ~GetImageDataThrows
    /\ \E lum \in Lums :
          LET pushed == Append(frames, [data |-> lum, time |-> currentTime,
                                        dataUrl |-> currentTime])
              count == processedCount + 1
              time == FAdd(currentTime, sampleRate)
          IN  /\ frames' = pushed
              /\ processedCount' = count
              /\ progressLog' = Append(progressLog, Percent(count, numSamples + 1))
              /\ currentTime' = time
              /\ IF Continues(time, duration)
                 THEN /\ Seek(time)
                      /\ pc' = "seeking"
                      /\ UNCHANGED <<promise, value, revokeCalls, scenes, diffs>>
                 ELSE /\ FinishAdaptive(pushed)
                      /\ listener' = FALSE
                      /\ seekPending' = FALSE
                      /\ UNCHANGED seekLog
    /\ UNCHANGED <<inputVars, strategy, dimVars, fixedVars, numSamples,
                   videoError, urlCreated, threw>>

\* the 'seeked' handler of captureFrame when getImageData throws: the listener
\* is removed, the exception leaves the handler and resSeek is never called
SeekedThrows ==
    /\ UNCHANGED <<pixelVars, appVars, sidebarVars>>
    /\ pc = "seeking" /\ seekPending /\ listener /\ ~videoError
    /\ ~UsesFixed(fixedSegmentDuration)
    /\ GetImageDataThrows
    /\ listener' = FALSE
    /\ seekPending' = FALSE
    /\ threw' = TRUE
    /\ UNCHANGED <<inputVars, pc, strategy, dimVars, fixedVars, adaptiveVars,
                   scenes, videoError, promise, value, urlCreated,
                   revokeCalls, progressLog, seekLog>>

\* video.onerror: the element fails while loading or seeking, or later
VideoError ==
    /\ UNCHANGED <<pixelVars, appVars, sidebarVars>>
    /\ pc # "idle" /\ urlCreated /\ ~videoError
    /\ videoError' = TRUE
    /\ seekPending' = FALSE
    /\ Revoke
    /\ Reject("Error loading video")
    /\ UNCHANGED <<inputVars, pc, strategy, dimVars, fixedVars, adaptiveVars,
                   scenes, listener, urlCreated, progressLog, seekLog, threw>>

Next ==
    \/ Call
    \/ MetadataNotFinite
    \/ MetadataFixed
    \/ SeekedFixed
    \/ MetadataAdaptive
    \/ SeekedAdaptive
    \/ SeekedThrows
    \/ VideoError

Spec == Init /\ [][Next]_vars

\* ------------------------------------------------------------------
\* The difference score of two pixel buffers
\* ------------------------------------------------------------------

\* longest buffer compared, in pixels
MaxPixels == 2

\* RGBA pixels as getImageData returns them, one byte per channel
Pixels == {<<0, 0, 0, 255>>, <<0, 0, 0, 0>>, <<255, 255, 255, 255>>,
           <<200, 10, 30, 128>>}

\* the buffers of a canvas of 1..MaxPixels pixels
Buffers == UNION {[1..n -> Pixels] : n \in 1..MaxPixels}

\* the literals 0.299, 0.587 and 0.114
Thousandths(n) == IntDiv(n, 1000, 0)

\* a gray conversion that also weighs the alpha byte
Gray_WithAlpha(px) ==
    FAdd(FAdd(FAdd(FMulInt(px[1], Thousandths(299)),
                   FMulInt(px[2], Thousandths(587))),
              FMulInt(px[3], Thousandths(114))),
         FMulInt(px[4], Thousandths(114)))

\* gray1, gray2: 0.299 * R + 0.587 * G + 0.114 * B, added left to right
Gray(px) ==
    FAdd(FAdd(FMulInt(px[1], Thousandths(299)),
              FMulInt(px[2], Thousandths(587))),
         FMulInt(px[3], Thousandths(114)))

FAbs(a) == <<Abs(a[1]), a[2]>>

\* diffSum after the first n pixels
RECURSIVE DiffSum(_, _, _)
DiffSum(a, b, n) ==
    IF n = 0 THEN Zero
    ELSE FAdd(DiffSum(a, b, n - 1), FAbs(FSub(Gray(a[n]), Gray(b[n]))))

\* a mean that divides by the number of bytes
AvgDiff_ByBytes(a, b) == FDiv(DiffSum(a, b, Len(a)), FromInt(4 * Len(a)))

\* avgDiff = diffSum / (prev.length / 4)
AvgDiff(a, b) == FDiv(DiffSum(a, b, Len(a)), FromInt(Len(a)))

\* two frames of one canvas are at hand
PixelInit ==
    /\ VideoInit
    /\ duration = Zero /\ fixedSegmentDuration = Zero
    /\ sampleRate = FromInt(1) /\ diffThreshold = FromInt(18)
    /\ prev \in Buffers
    /\ curr \in {b \in Buffers : Len(b) = Len(prev)}
    /\ avgDiff = NoScore
    /\ AppIdle
    /\ SidebarIdle

\* one iteration of the difference loop
ComputeDiff ==
    /\ avgDiff = NoScore
    /\ prev # <<>>
    /\ avgDiff' = AvgDiff(prev, curr)
    /\ UNCHANGED <<prev, curr, videoVars, appVars, sidebarVars>>

PixelNext == ComputeDiff

PixelSpec == PixelInit /\ [][PixelNext]_vars

\* ------------------------------------------------------------------
\* The App component
\* ------------------------------------------------------------------

\* scenes a processed video yields
NumScenes == 2

\* scene cards on show when selections are toggled
NumCards == 14

\* files selected in one session
MaxFiles == 2

\* handleAnalyzeAll calls that start a loop in one session
MaxBatches == 2

\* scene.analysis is undefined
NoAnalysis == <<>>

\* a result of processVideoScenes for file f: n scenes numbered from 1,
\* their thumbnails frames of f
Detected(f, n) ==
    [k \in 1..n |->
        [id |-> k, thumbnailDataUrl |-> <<f, k>>, analysis |-> NoAnalysis,
         isAnalyzing |-> FALSE, error |-> FALSE]]

DetectedScenes(f) == Detected(f, NumScenes)

Ids(sc) == {sc[k].id : k \in DOMAIN sc}

\* prev.map(s => s.id === sceneId ? { ...s, isAnalyzing: true, error: undefined } : s)
MarkAnalyzing(sc, sceneId) ==
    [k \in DOMAIN sc |->
        IF sc[k].id = sceneId
        THEN [sc[k] EXCEPT !.isAnalyzing = TRUE, !.error = FALSE]
        ELSE sc[k]]

\* prev.map(s => s.id === sceneId ? { ...s, analysis, isAnalyzing: false } : s);
\* the analysis is named by the image it was made from
AttachAnalysis(sc, sceneId, image) ==
    [k \in DOMAIN sc |->
        IF sc[k].id = sceneId
        THEN [sc[k] EXCEPT !.analysis = image, !.isAnalyzing = FALSE]
        ELSE sc[k]]

\* prev.map(s => s.id === sceneId ? { ...s, isAnalyzing: false, error: "Failed to analyze." } : s)
AttachError(sc, sceneId) ==
    [k \in DOMAIN sc |->
        IF sc[k].id = sceneId
        THEN [sc[k] EXCEPT !.isAnalyzing = FALSE, !.error = TRUE]
        ELSE sc[k]]

\* a selection that is appended to without sorting
ToggleSelect_Unsorted(sel, id) ==
    IF \E k \in DOMAIN sel : sel[k] = id
    THEN SelectSeq(sel, LAMBDA sid : sid # id)
    ELSE IF Len(sel) >= 2 THEN <<id>>
    ELSE Append(sel, id)

\* the updater handleToggleSelect passes to setSelectedSceneIds
ToggleSelect(sel, id) ==
    IF \E k \in DOMAIN sel : sel[k] = id
    THEN SelectSeq(sel, LAMBDA sid : sid # id)
    ELSE IF Len(sel) >= 2 THEN <<id>>
    ELSE SortSeq(Append(sel, id), LAMBDA a, b : a < b)

\* scenes.filter(s => !s.analysis).map(s => s.id), and the thumbnails the
\* loop's handleAnalyzeScene finds in the scenes of its render
Unanalyzed(sc) == SelectSeq(sc, LAMBDA s : s.analysis = NoAnalysis)

\* the main panel is rendered
PanelShown == file # 0 /\ ~showDurationSelection

\* the batch button is rendered and enabled
BatchButton ==
    /\ PanelShown
    /\ progress \notin {"processing_video", "error"}
    /\ appScenes # <<>>
    /\ ~isStopping

\* the scene cards are rendered
CardsShown == PanelShown /\ progress = "complete"

\* the state left by handleFileSelect and reset, apart from the file
Cleared ==
    /\ appScenes' = <<>>
    /\ selectedSceneIds' = <<>>
    /\ progress' = "idle"
    /\ isBatchAnalyzing' = FALSE
    /\ isStopping' = FALSE
    /\ stopBatchRef' = FALSE

handleFileSelect ==
    /\ file = 0
    /\ filesSelected < MaxFiles
    /\ filesSelected' = filesSelected + 1
    /\ file' = filesSelected + 1
    /\ Cleared
    /\ showDurationSelection' = TRUE
    /\ UNCHANGED <<runs, requests, batches, videoVars, pixelVars, sidebarVars>>

handleDurationSelect ==
    /\ file # 0
    /\ showDurationSelection
    /\ showDurationSelection' = FALSE
    /\ progress' = "processing_video"
    /\ runs' = runs \cup {file}
    /\ UNCHANGED <<file, filesSelected, appScenes, selectedSceneIds,
                   isBatchAnalyzing, isStopping, stopBatchRef, requests,
                   batches, videoVars, pixelVars, sidebarVars>>

\* onProgress of an awaited processVideoScenes call
VideoProgress ==
    /\ \E f \in runs : progress' = "processing_video"
    /\ UNCHANGED <<file, filesSelected, showDurationSelection, appScenes,
                   selectedSceneIds, isBatchAnalyzing, isStopping,
                   stopBatchRef, runs, requests, batches, videoVars,
                   pixelVars, sidebarVars>>

\* an awaited processVideoScenes call resolves
VideoResolved ==
    /\ \E f \in runs :
        /\ runs' = runs \ {f}
        /\ appScenes' = DetectedScenes(f)
    /\ progress' = "complete"
    /\ UNCHANGED <<file, filesSelected, showDurationSelection,
                   selectedSceneIds, isBatchAnalyzing, isStopping,
                   stopBatchRef, requests, batches, videoVars, pixelVars, sidebarVars>>

\* an awaited processVideoScenes call rejects
VideoRejected ==
    /\ \E f \in runs : runs' = runs \ {f}
    /\ progress' = "error"
    /\ UNCHANGED <<file, filesSelected, showDurationSelection, appScenes,
                   selectedSceneIds, isBatchAnalyzing, isStopping,
                   stopBatchRef, requests, batches, videoVars, pixelVars, sidebarVars>>

\* handleAnalyzeScene(sceneId) up to its await, called by a card (by = 0) or
\* by the loop of batch by; image is the thumbnail found in the scenes of
\* the caller's render
StartAnalysis(sceneId, image, by) ==
    /\ appScenes' = MarkAnalyzing(appScenes, sceneId)
    /\ requests' = requests \cup
                       {[sceneId |-> sceneId, image |-> image, by |-> by]}

\* the Analyze or Retry button of a scene card
handleAnalyzeScene ==
    /\ CardsShown
    /\ \E k \in DOMAIN appScenes :
        /\ \/ appScenes[k].analysis = NoAnalysis /\ ~appScenes[k].isAnalyzing
           \/ appScenes[k].error
        /\ StartAnalysis(appScenes[k].id, appScenes[k].thumbnailDataUrl, 0)
    /\ UNCHANGED <<file, filesSelected, showDurationSelection, progress,
                   selectedSceneIds, isBatchAnalyzing, isStopping,
                   stopBatchRef, runs, batches, videoVars, pixelVars, sidebarVars>>

\* a finally block that leaves the stop flag as it is
Finally_StopFlagLeft ==
    /\ isBatchAnalyzing' = FALSE
    /\ isStopping' = FALSE
    /\ UNCHANGED stopBatchRef

\* the finally block of handleAnalyzeAll
Finally ==
    /\ isBatchAnalyzing' = FALSE
    /\ isStopping' = FALSE
    /\ stopBatchRef' = FALSE

\* the batch button while no batch is marked running
handleAnalyzeAll ==
    /\ BatchButton
    /\ ~isBatchAnalyzing
    /\ Len(batches) < MaxBatches
    /\ LET todo == Unanalyzed(appScenes)
       IN  IF todo = <<>>
           THEN /\ Finally
                /\ UNCHANGED <<appScenes, requests, batches>>
           ELSE /\ isBatchAnalyzing' = TRUE
                /\ stopBatchRef' = FALSE
                /\ UNCHANGED isStopping
                /\ batches' = Append(batches,
                       [idsToProcess |-> [k \in DOMAIN todo |-> todo[k].id],
                        images |-> [k \in DOMAIN todo |->
                                        todo[k].thumbnailDataUrl],
                        i |-> 1, at |-> "analyze", stopRequested |-> FALSE])
                /\ StartAnalysis(todo[1].id, todo[1].thumbnailDataUrl,
                                 Len(batches) + 1)
    /\ UNCHANGED <<file, filesSelected, showDurationSelection, progress,
                   selectedSceneIds, runs, videoVars, pixelVars, sidebarVars>>

\* the awaited analyzeSceneFrame call r resolves (ok) or throws; the loop
\* that awaited it goes on to its stop check
SettleRequest(r) ==
    /\ r \in requests
    /\ \E ok \in BOOLEAN :
        /\ requests' = requests \ {r}
        /\ appScenes' = IF ok THEN AttachAnalysis(appScenes, r.sceneId, r.image)
                        ELSE AttachError(appScenes, r.sceneId)
        /\ IF r.by = 0
           THEN UNCHANGED <<isBatchAnalyzing, isStopping, stopBatchRef, batches>>
           ELSE IF stopBatchRef
                   \/ batches[r.by].i = Len(batches[r.by].idsToProcess)
           THEN /\ Finally
                /\ batches' = [batches EXCEPT ![r.by].at = "ended"]
           ELSE /\ batches' = [batches EXCEPT ![r.by].at = "delay"]
                /\ UNCHANGED <<isBatchAnalyzing, isStopping, stopBatchRef>>
    /\ UNCHANGED <<file, filesSelected, showDurationSelection, progress,
                   selectedSceneIds, runs, videoVars, pixelVars, sidebarVars>>

AnalysisSettled == \E r \in requests : SettleRequest(r)

\* a timer of the delay loop of batch b fires: the loop ends if a stop is
\* pending and otherwise, once the delay is over, analyses its next scene
Delay(b) ==
    /\ b \in DOMAIN batches
    /\ batches[b].at = "delay"
    /\ IF stopBatchRef
       THEN /\ Finally
            /\ batches' = [batches EXCEPT ![b].at = "ended"]
            /\ UNCHANGED <<appScenes, requests>>
       ELSE LET n == batches[b].i + 1
            IN  /\ batches' = [batches EXCEPT ![b].i = n,
                                              ![b].at = "analyze"]
                /\ StartAnalysis(batches[b].idsToProcess[n],
                                 batches[b].images[n], b)
                /\ UNCHANGED <<isBatchAnalyzing, isStopping, stopBatchRef>>
    /\ UNCHANGED <<file, filesSelected, showDurationSelection, progress,
                   selectedSceneIds, runs, videoVars, pixelVars, sidebarVars>>

DelayElapsed == \E b \in DOMAIN batches : Delay(b)

\* the batch button while a batch is marked running
handleStopBatch ==
    /\ BatchButton
    /\ isBatchAnalyzing
    /\ stopBatchRef' = TRUE
    /\ isStopping' = TRUE
    /\ batches' = [b \in DOMAIN batches |->
                      IF batches[b].at = "ended" THEN batches[b]
                      ELSE [batches[b] EXCEPT !.stopRequested = TRUE]]
    /\ UNCHANGED <<file, filesSelected, showDurationSelection, progress,
                   appScenes, selectedSceneIds, isBatchAnalyzing, runs,
                   requests, videoVars, pixelVars, sidebarVars>>

\* the selection mark of a scene card
handleToggleSelect ==
    /\ CardsShown
    /\ \E id \in Ids(appScenes) :
        selectedSceneIds' = ToggleSelect(selectedSceneIds, id)
    /\ UNCHANGED <<file, filesSelected, showDurationSelection, progress,
                   appScenes, isBatchAnalyzing, isStopping, stopBatchRef,
                   runs, requests, batches, videoVars, pixelVars, sidebarVars>>

reset ==
    /\ file # 0
    /\ file' = 0
    /\ Cleared
    /\ showDurationSelection' = FALSE
    /\ UNCHANGED <<filesSelected, runs, requests, batches, videoVars,
                   pixelVars, sidebarVars>>

\* no video is being processed by the model of processVideoScenes
AppInit ==
    /\ VideoInit
    /\ duration = Zero /\ fixedSegmentDuration = Zero
    /\ sampleRate = FromInt(1) /\ diffThreshold = FromInt(18)
    /\ PixelIdle
    /\ AppIdle
    /\ SidebarIdle

\* every handler but handleToggleSelect, whose state (selectedSceneIds) no
\* other handler reads
AppNext ==
    \/ handleFileSelect
    \/ handleDurationSelect
    \/ VideoProgress
    \/ VideoResolved
    \/ VideoRejected
    \/ handleAnalyzeScene
    \/ handleAnalyzeAll
    \/ AnalysisSettled
    \/ DelayElapsed
    \/ handleStopBatch
    \/ reset

AppSpec == AppInit /\ [][AppNext]_vars

\* the requests a loop can be awaiting
BatchRequests ==
    {[sceneId |-> k, image |-> <<f, k>>, by |-> b] :
        k \in 1..NumScenes, f \in 1..MaxFiles, b \in 1..MaxBatches}

\* every analysis request a loop awaits returns or fails, and the timers of
\* its delay fire
FairAppSpec ==
    /\ AppSpec
    /\ \A r \in BatchRequests : WF_vars(SettleRequest(r))
    /\ \A b \in 1..MaxBatches : WF_vars(Delay(b))

\* a first video has been processed into NumCards scenes, nothing selected
ToggleInit ==
    /\ VideoInit
    /\ duration = Zero /\ fixedSegmentDuration = Zero
    /\ sampleRate = FromInt(1) /\ diffThreshold = FromInt(18)
    /\ PixelIdle
    /\ SidebarIdle
    /\ file = 1
    /\ filesSelected = 1
    /\ showDurationSelection = FALSE
    /\ progress = "complete"
    /\ appScenes = Detected(1, NumCards)
    /\ selectedSceneIds = <<>>
    /\ isBatchAnalyzing = FALSE
    /\ isStopping = FALSE
    /\ stopBatchRef = FALSE
    /\ runs = {}
    /\ requests = {}
    /\ batches = <<>>

ToggleNext == handleToggleSelect

ToggleSpec == ToggleInit /\ [][ToggleNext]_vars

\* ------------------------------------------------------------------
\* The Sidebar component
\* ------------------------------------------------------------------

MAX_FRAMES == 8

Min2(a, b) == IF a < b THEN a ELSE b

Max2(a, b) == IF a < b THEN b ELSE a

\* scenes.filter(s => s.id >= startId && s.id <= endId).sort((a, b) => a.id - b.id)
SceneSequence(sc, sel) ==
    LET startId == Min2(sel[1], sel[2])
        endId == Max2(sel[1], sel[2])
    IN  SortSeq(SelectSeq(sc, LAMBDA s : s.id >= startId /\ s.id <= endId),
                LAMBDA a, b : a.id < b.id)

\* step for a sequence of n > MAX_FRAMES scenes
Step(n) == IntDiv(n - 1, MAX_FRAMES - 1, 0)

\* idx = Math.round(i * step)
SampleIdx(k, n) == Round(FMulInt(k, Step(n)))

\* a sample of the first MAX_FRAMES scenes of a long sequence
FramesToSend_Head(seq) ==
    [j \in 1..Min2(Len(seq), MAX_FRAMES) |-> seq[j].thumbnailDataUrl]

\* the thumbnails pushed to framesToSend (indices from 1)
FramesToSend(seq) ==
    IF Len(seq) > MAX_FRAMES
    THEN [j \in 1..MAX_FRAMES |->
             seq[SampleIdx(j - 1, Len(seq)) + 1].thumbnailDataUrl]
    ELSE [j \in 1..Len(seq) |-> seq[j].thumbnailDataUrl]

\* the Sidebar is rendered by the App
SidebarShown ==
    /\ file # 0 /\ ~showDurationSelection
    /\ progress = "complete"
    /\ selectedSceneIds # <<>>

\* the 'Generate Timelapse Prompt' button; it is disabled unless two scenes
\* are selected, as the handler's first line also requires
handleGenTimelapse ==
    /\ SidebarShown
    /\ ~isGenTimelapse
    /\ Len(selectedSceneIds) = 2
    /\ timelapsePrompt' = "null"
    /\ LET sceneSequence == SceneSequence(appScenes, selectedSceneIds)
       IN  IF sceneSequence # <<>>
           THEN /\ sceneImages' = FramesToSend(sceneSequence)
                /\ isGenTimelapse' = TRUE
           ELSE /\ sceneImages' = NoCall
                /\ isGenTimelapse' = FALSE
    /\ UNCHANGED <<videoVars, pixelVars, appVars>>

\* the awaited generateTimelapsePrompt call resolves (ok) or throws
TimelapseSettled ==
    /\ sceneImages # NoCall
    /\ \E ok \in BOOLEAN :
          timelapsePrompt' = IF ok THEN "res" ELSE "error"
    /\ isGenTimelapse' = FALSE
    /\ sceneImages' = NoCall
    /\ UNCHANGED <<videoVars, pixelVars, appVars>>

\* the selections handleToggleSelect leaves
Selections ==
    {<<>>} \cup {<<a>> : a \in 1..NumCards}
           \cup {<<a, b>> : a \in 1..NumCards, b \in 1..NumCards}

\* a processed video of NumCards scenes with some of them selected
SidebarInit ==
    /\ VideoInit
    /\ duration = Zero /\ fixedSegmentDuration = Zero
    /\ sampleRate = FromInt(1) /\ diffThreshold = FromInt(18)
    /\ PixelIdle
    /\ SidebarIdle
    /\ file = 1
    /\ filesSelected = 1
    /\ showDurationSelection = FALSE
    /\ progress = "complete"
    /\ appScenes = Detected(1, NumCards)
    /\ selectedSceneIds \in {sel \in Selections :
                               \A k \in 1..(Len(sel) - 1) : sel[k] < sel[k + 1]}
    /\ isBatchAnalyzing = FALSE
    /\ isStopping = FALSE
    /\ stopBatchRef = FALSE
    /\ runs = {}
    /\ requests = {}
    /\ batches = <<>>

SidebarNext ==
    \/ handleGenTimelapse
    \/ TimelapseSettled

SidebarSpec == SidebarInit /\ [][SidebarNext]_vars

\* ------------------------------------------------------------------
\* Properties
\* ------------------------------------------------------------------

Fixed == fixedSegmentDuration # Zero

Adaptive == fixedSegmentDuration = Zero

Positive(d) == isFinite(d) /\ FGreater(d, Zero)

Resolved == promise = "resolved"

\* the list starts at 0, ends at dur and every scene ends where the next starts
Contiguous(sc, dur) ==
    /\ Len(sc) > 0
    /\ sc[1].startTime = Zero
    /\ \A k \in 1..(Len(sc) - 1) : sc[k].endTime = sc[k + 1].startTime
    /\ sc[Len(sc)].endTime = dur

\* C1: for every finite duration > 0 and either strategy, the scene list the
\* promise resolves with is contiguous and covers [0, duration] exactly:
\* it starts at 0, each scene ends where the next starts, the last ends at
\* duration.
C1_ContiguousCover ==
    (Resolved /\ Positive(duration)) => Contiguous(value.scenes, duration)

\* C2: every scene of the list the promise resolves with has
\* startTime < endTime, in both strategies, the final scene included.
C2_StartBeforeEnd ==
    (Resolved /\ Positive(duration)) =>
        \A k \in 1..Len(value.scenes) :
            FLess(value.scenes[k].startTime, value.scenes[k].endTime)

\* C3: in fixed mode the number of scenes is ceil(duration / fixedSegmentDuration)
\* and the last scene ends at duration exactly.
C3_FixedCountAndEnd ==
    (Resolved /\ Fixed /\ Positive(duration)) =>
        /\ Len(value.scenes) = Ceil(FDiv(duration, fixedSegmentDuration))
        /\ Len(value.scenes) > 0
        /\ value.scenes[Len(value.scenes)].endTime = duration

\* C4: when adaptive mode resolves, diffs has max(0, frames.length - 1)
\* entries; when fixed mode resolves, diffs is empty.
C4_DiffsLength ==
    Resolved =>
        IF Adaptive
        THEN Len(value.diffs) = (IF Len(frames) > 0 THEN Len(frames) - 1 ELSE 0)
        ELSE Len(value.diffs) = 0

C4_Witness ==
    Resolved /\ Adaptive /\ Len(frames) >= 3 /\ Len(value.diffs) = Len(frames) - 1

\* thresholds the sampled frames of a run are segmented again with
ProbeThresholds == {FromInt(n) : n \in {0, 17, 18, 19, 32, 40, 50, 60}}

\* C5: threshold monotonicity: on the same sampled frames and duration, a
\* threshold t2 >= t1 gives at most as many scenes as t1.
C5_ThresholdMonotone ==
    (Resolved /\ Adaptive) =>
        /\ value.scenes = AdaptiveScenes(frames, value.diffs, diffThreshold, duration)
        /\ \A t1, t2 \in ProbeThresholds :
              FLeq(t1, t2) =>
                 Len(AdaptiveScenes(frames, value.diffs, t2, duration))
                    <= Len(AdaptiveScenes(frames, value.diffs, t1, duration))

C5_Witness ==
    /\ Resolved /\ Adaptive
    /\ Len(AdaptiveScenes(frames, value.diffs, FromInt(40), duration))
          < Len(AdaptiveScenes(frames, value.diffs, FromInt(18), duration))
    /\ Len(AdaptiveScenes(frames, value.diffs, FromInt(40), duration)) > 1

\* C6 (determinism of two runs on the same frames) compares two evaluations
\* of the same operators and is not stated here.

\* the spans of a scene list
Spans(sc) == [k \in 1..Len(sc) |-> <<sc[k].startTime, sc[k].endTime>>]

\* Scenario B: duration 4, interval 1, threshold 18, five frames whose
\* difference scores are 0, 50, 0, 0
ScenarioB ==
    /\ Resolved /\ Adaptive
    /\ duration = FromInt(4)
    /\ sampleRate = FromInt(1)
    /\ diffThreshold = FromInt(18)
    /\ Len(frames) = 5
    /\ [k \in 1..Len(value.diffs) |-> value.diffs[k].diffScore]
          = <<Zero, FromInt(50), Zero, Zero>>

\* C7 as claimed: in Scenario B the cut is at t = 1 and the scenes are
\* [0,1] and [1,4].
C7_ScenarioB_Claimed ==
    ScenarioB =>
        Spans(value.scenes) = <<<<Zero, FromInt(1)>>, <<FromInt(1), FromInt(4)>>>>

\* C7 as amended: in Scenario B the cut is at frame index 2 (t = 2), the later
\* frame of the pair at diff position 1, and the scenes are [0,2] and [2,4].
C7_ScenarioB ==
    ScenarioB =>
        Spans(value.scenes) = <<<<Zero, FromInt(2)>>, <<FromInt(2), FromInt(4)>>>>

C7_Witness == ScenarioB /\ Len(value.scenes) = 2

\* every segment or scene of the run is in the list, which covers [0, dur]
Complete(sc, dur) ==
    /\ IF Fixed THEN Len(sc) = totalSegments
                ELSE /\ Len(frames) = Len(seekLog)
                     /\ Len(sc) > 0
    /\ \A k \in 1..Len(sc) : sc[k].id = k
    /\ Len(sc) > 0 => sc[1].startTime = Zero /\ sc[Len(sc)].endTime = dur

\* C8: the promise settles at most once; it resolves with a complete scene
\* list (every segment or scene of the run, covering [0, duration]) or rejects
\* with one error, and never resolves with a partly filled list, also when the
\* video element raises an error while captures are in progress.
C8_SettlesOnceComplete ==
    /\ [][promise # "pending" => (promise' = promise /\ value' = value)]_vars
    /\ [](promise \in {"pending", "resolved", "rejected"})
    /\ [](promise = "rejected" => value.kind = "error")
    /\ []((Resolved /\ Positive(duration)) =>
             (~videoError \/ pc = "returned") /\ Complete(value.scenes, duration))

\* no step of the run is due: it has returned, the video element has failed,
\* or the loop awaits a capture whose 'seeked' event cannot come (no seek in
\* flight, or no listener attached)
Stopped ==
    \/ pc = "returned"
    \/ videoError
    \/ (pc = "seeking" /\ ~(seekPending /\ listener))

\* C9: once the object URL is created the run settles (a run that can take
\* no further step has settled), and URL.revokeObjectURL has been called by
\* the time it settles.
C9_SettlesAndRevokes ==
    /\ (urlCreated /\ Stopped) => promise # "pending"
    /\ (urlCreated /\ promise # "pending") => revokeCalls > 0

\* a capture failed: its 'seeked' handler threw, or the video element raised
\* an error while the seek was in flight
CaptureFailed == threw \/ (videoError /\ pc = "seeking")

\* C10: when a capture fails the run is aborted: no further capture is
\* issued, the caller receives an error and no scene list is returned.
C10_CaptureFailureAborts ==
    /\ [][CaptureFailed => seekLog' = seekLog]_vars
    /\ [](CaptureFailed => promise # "resolved")
    /\ []((CaptureFailed /\ Stopped) => promise = "rejected")

\* C11: when video.duration is not finite at 'loadedmetadata', the promise
\* is rejected and no seek has been issued, in either strategy: no seek is
\* ever issued in such a run, it never resolves, and once the metadata
\* handler has returned it is rejected with the duration error.
C11_NonFiniteRejects ==
    duration = NaN =>
        /\ seekLog = <<>>
        /\ strategy = "none"
        /\ promise # "resolved"
        /\ (urlCreated /\ pc = "returned" /\ ~videoError) =>
              /\ promise = "rejected"
              /\ value.message = "Could not determine video duration"

C11_Witness ==
    /\ duration = NaN /\ urlCreated /\ pc = "returned" /\ ~videoError
    /\ promise = "rejected"

\* C12: a run that produces zero scenes is reported as a failure: the
\* promise never resolves with an empty scene list, in either strategy.
C12_NoEmptyResolve ==
    Resolved => Len(value.scenes) > 0

\* C13: every value passed to onProgress is an integer in 0..100, the
\* values never decrease, and the last one before a successful resolve is 100.
C13_Progress ==
    /\ \A k \in 1..Len(progressLog) : progressLog[k] \in 0..100
    /\ \A k \in 1..(Len(progressLog) - 1) : progressLog[k] <= progressLog[k + 1]
    /\ (Resolved /\ Len(progressLog) > 0) => progressLog[Len(progressLog)] = 100

\* C14: the fixed-interval strategy runs exactly when a fixedSegmentDuration
\* is supplied (present and not 0) and the adaptive strategy otherwise; the
\* App's choice 0 ('Frame by AI') gives the adaptive strategy and its
\* choices 5, 8 and 10 give the fixed-interval strategy.
C14_StrategySelection ==
    strategy # "none" =>
        /\ strategy = "fixed" <=> Fixed
        /\ strategy = "adaptive" <=> Adaptive
        /\ strategy = "fixed" => (frames = <<>> /\ diffs = <<>>)
        /\ strategy = "adaptive" => totalSegments = 0
        /\ \A choice \in DurationChoices :
              fixedSegmentDuration = SelectedOption(choice) =>
                 strategy = (IF choice = 0 THEN "adaptive" ELSE "fixed")

C14_Witness ==
    /\ fixedSegmentDuration = SelectedOption(8)
    /\ strategy = "fixed" /\ Resolved /\ Len(value.scenes) > 0

\* C15: in the adaptive strategy, when no difference score exceeds
\* diffThreshold (every score <= threshold) exactly one scene is returned,
\* with id 1 and spanning [0, duration].
C15_NoCutOneScene ==
    (/\ Resolved /\ Adaptive
     /\ \A k \in 1..Len(value.diffs) :
           FLeq(value.diffs[k].diffScore, diffThreshold)) =>
        /\ Len(value.scenes) = 1
        /\ value.scenes[1].id = 1
        /\ value.scenes[1].startTime = Zero
        /\ value.scenes[1].endTime = duration

C15_Witness ==
    /\ Resolved /\ Adaptive
    /\ Len(value.diffs) >= 2
    /\ \A k \in 1..Len(value.diffs) :
          FLeq(value.diffs[k].diffScore, diffThreshold)
    /\ \E k \in 1..Len(value.diffs) : value.diffs[k].diffScore = diffThreshold
    /\ Len(value.scenes) = 1

\* C16: in the adaptive strategy, when duration is smaller than the sampling
\* interval exactly one frame is sampled, at t = 0, diffs is empty and
\* exactly one scene [0, duration] is returned.
C16_SubInterval ==
    (Resolved /\ Adaptive /\ FLess(duration, sampleRate)) =>
        /\ Len(frames) = 1
        /\ frames[1].time = Zero
        /\ seekLog = <<Zero>>
        /\ value.diffs = <<>>
        /\ Spans(value.scenes) = <<<<Zero, duration>>>>

C16_Witness ==
    /\ Resolved /\ Adaptive
    /\ Positive(duration) /\ FLess(duration, sampleRate)
    /\ Len(frames) = 1 /\ Len(value.scenes) = 1

\* C17: the adaptive sampler requests frames at exactly the timestamps
\* 0, interval, 2 * interval, ... for every multiple k * interval <= duration,
\* so the number of sampled frames is floor(duration / interval) + 1 and
\* equals numSamples + 1, the denominator of the progress values.
C17_SampleTimes ==
    (Resolved /\ Adaptive) =>
        /\ \A k \in 1..Len(frames) : frames[k].time = FMulInt(k - 1, sampleRate)
        /\ ~FLeq(FMulInt(Len(frames), sampleRate), duration)
        /\ Len(frames) = Floor(FDiv(duration, sampleRate)) + 1
        /\ Len(frames) = numSamples + 1

\* the captures recorded so far: thumbnails of segments, or sampled frames
Recorded == IF strategy = "fixed" THEN Len(scenes) ELSE Len(frames)

\* the timestamp the k-th capture was sought at is below that of the next
Increasing(log) ==
    \A k \in 1..(Len(log) - 1) : FLess(log[k], log[k + 1])

\* the timestamps of a log never go back
NonDecreasing(log) ==
    \A k \in 1..(Len(log) - 1) : FLeq(log[k], log[k + 1])

\* at most one seek is in flight, a seek is issued only when every earlier
\* seek has been recorded, and each 'seeked' event records exactly one frame
OneAtATime ==
    /\ [](Len(seekLog) \in {Recorded, Recorded + 1})
    /\ [](seekPending => Len(seekLog) = Recorded + 1)
    /\ [][seekLog' # seekLog =>
             /\ Len(seekLog') = Len(seekLog) + 1
             /\ Recorded' = Len(seekLog)]_vars
    /\ [][Recorded' # Recorded => (seekPending /\ Recorded' = Recorded + 1)]_vars
    /\ [](\A k \in 1..Len(frames) : frames[k].time = seekLog[k])

Cuts ==
    {idx \in 0..(Len(value.diffs) - 1) :
        FGreater(value.diffs[idx + 1].diffScore, diffThreshold)}

MaxOf(S) == CHOOSE x \in S : \A y \in S : y <= x

\* the frame the scene open at diff position idx starts at
SceneStart(idx) ==
    LET before == {c \in Cuts : c < idx}
    IN  IF before = {} THEN 0 ELSE MaxOf(before) + 1

\* C19: a scene is closed at diff position idx exactly when its score is
\* strictly greater than diffThreshold; the closed scene spans
\* [frames[sceneStart].time, frames[idx+1].time], takes its thumbnail from
\* frame floor((sceneStart + idx + 1) / 2), and the next scene starts at
\* frame idx + 1.
C19_CutRule ==
    (Resolved /\ Adaptive) =>
        /\ Len(value.scenes) = Cardinality(Cuts) + 1
        /\ \A idx \in Cuts :
              LET n == Cardinality({c \in Cuts : c < idx}) + 1
                  sceneStart == SceneStart(idx)
              IN  /\ value.scenes[n] =
                        [id |-> n,
                         startTime |-> frames[sceneStart + 1].time,
                         endTime |-> frames[idx + 2].time,
                         thumbnailDataUrl |->
                            frames[((sceneStart + idx + 1) \div 2) + 1].dataUrl]
                  /\ value.scenes[n + 1].startTime = frames[idx + 2].time

C19_Witness ==
    /\ Resolved /\ Adaptive
    /\ Cardinality(Cuts) >= 2
    /\ \E k \in 1..Len(value.diffs) : value.diffs[k].diffScore = diffThreshold
    /\ \E n \in 1..(Len(value.scenes) - 1) :
          value.scenes[n].thumbnailDataUrl # value.scenes[n].startTime

\* C20: after the pass over the diffs, when at least one frame was sampled
\* there is exactly one final scene, spanning [frames[sceneStart].time,
\* duration], with its thumbnail from frame
\* floor((sceneStart + frames.length - 1) / 2).
C20_FinalScene ==
    (Resolved /\ Adaptive /\ Len(frames) > 0) =>
        LET sceneStart == SceneStart(Len(value.diffs))
            n == Len(value.scenes)
        IN  /\ n = Cardinality(Cuts) + 1
            /\ value.scenes[n] =
                  [id |-> n,
                   startTime |-> frames[sceneStart + 1].time,
                   endTime |-> duration,
                   thumbnailDataUrl |->
                      frames[((sceneStart + Len(frames) - 1) \div 2) + 1].dataUrl]

C20_Witness ==
    /\ Resolved /\ Adaptive
    /\ Cuts # {}
    /\ frames[Len(frames)].time # duration
    /\ SceneStart(Len(value.diffs)) < Len(frames) - 1
    /\ value.scenes[Len(value.scenes)].endTime = duration

\* C21: in both strategies the scene ids are 1, 2, ..., n in list order.
C21_SceneIds ==
    Resolved => \A k \in 1..Len(value.scenes) : value.scenes[k].id = k

C21_Witness ==
    /\ Resolved /\ Len(value.scenes) >= 3
    /\ value.scenes[Len(value.scenes)].id = Len(value.scenes)

\* C22: in the fixed-interval strategy segment i (from 0) spans exactly
\* [i * fixedSegmentDuration, min((i + 1) * fixedSegmentDuration, duration)].
C22_SegmentSpans ==
    (Resolved /\ Fixed) =>
        \A k \in 1..Len(value.scenes) :
            /\ value.scenes[k].startTime = FMulInt(k - 1, fixedSegmentDuration)
            /\ value.scenes[k].endTime =
                  FMin(FMulInt(k, fixedSegmentDuration), duration)

\* C23: in the fixed-interval strategy the seek time of segment i is
\* min(midpoint of the segment, duration - 0.1), it lies strictly inside the
\* segment and is not past the end of the stream.
C23_SeekInsideSegment ==
    strategy = "fixed" =>
        \A k \in 1..Len(scenes) :
            /\ seekLog[k] = FMin(FAdd(scenes[k].startTime,
                                      FDiv(FSub(scenes[k].endTime,
                                                scenes[k].startTime),
                                           FromInt(2))),
                                 FSub(duration, Dec(1)))
            /\ FLess(scenes[k].startTime, seekLog[k])
            /\ FLess(seekLog[k], scenes[k].endTime)
            /\ FLeq(seekLog[k], duration)

\* C24: diffs holds one entry for every consecutive pair of sampled frames,
\* in increasing frameIndex order: entry j (from 0) has frameIndex j + 1, the
\* index of the later frame of the pair, and that frame's timestamp.
C24_DiffEntries ==
    (Resolved /\ Adaptive) =>
        /\ Len(value.diffs) = (IF Len(frames) > 0 THEN Len(frames) - 1 ELSE 0)
        /\ \A k \in 1..Len(value.diffs) :
              /\ value.diffs[k].frameIndex = k
              /\ value.diffs[k].timestamp = frames[k + 1].time
              /\ value.diffs[k].diffScore = Score(frames[k].data, frames[k + 1].data)

C24_Witness ==
    /\ Resolved /\ Adaptive /\ Len(value.diffs) >= 3
    /\ value.diffs[3].frameIndex = 3
    /\ value.diffs[3].timestamp = frames[4].time

\* round(MAX_DIMENSION * shorter / longer), in exact arithmetic
ScaledSide(shorter, longer) ==
    (2 * MAX_DIMENSION * shorter + longer) \div (2 * longer)

\* C26: the capture dimensions are computed once, before any capture, and
\* reused: a source of at most 320 x 320 is unchanged; otherwise the longer
\* side becomes 320 and the shorter side round(320 * shorter / longer), so
\* both sides are at most 320.
C26_Dimensions ==
    /\ [](strategy # "none" =>
             /\ IF videoWidth <= MAX_DIMENSION /\ videoHeight <= MAX_DIMENSION
                THEN width = videoWidth /\ height = videoHeight
                ELSE IF videoWidth > videoHeight
                     THEN /\ width = MAX_DIMENSION
                          /\ height = ScaledSide(videoHeight, videoWidth)
                     ELSE /\ height = MAX_DIMENSION
                          /\ width = ScaledSide(videoWidth, videoHeight)
             /\ width <= MAX_DIMENSION /\ height <= MAX_DIMENSION)
    /\ [](seekLog # <<>> => strategy # "none")
    /\ [][strategy # "none" => (width' = width /\ height' = height)]_vars

\* C29: in the adaptive strategy every thumbnail index is an index into
\* frames within the frame span of its scene: sceneStart <= thumbnail index
\* <= endIdx < frames.length for a cut scene, and up to frames.length - 1 for
\* the final scene; sceneStart never decreases and stays below frames.length.
C29_ThumbnailInSpan ==
    (Resolved /\ Adaptive) =>
        /\ \A idx \in Cuts :
              LET sceneStart == SceneStart(idx)
                  endIdx == EndIdx(idx)
                  thumb == ThumbIdx(sceneStart, endIdx)
                  n == Cardinality({c \in Cuts : c < idx}) + 1
              IN  /\ sceneStart <= thumb /\ thumb <= endIdx
                  /\ endIdx < Len(frames)
                  /\ value.scenes[n].thumbnailDataUrl = frames[thumb + 1].dataUrl
                  /\ SceneStart(idx) <= SceneStart(idx + 1)
        /\ LET sceneStart == SceneStart(Len(value.diffs))
               thumb == ThumbIdx(sceneStart, Len(frames) - 1)
           IN  /\ sceneStart <= thumb /\ thumb <= Len(frames) - 1
               /\ sceneStart <= Len(frames) - 1
               /\ value.scenes[Len(value.scenes)].thumbnailDataUrl
                     = frames[thumb + 1].dataUrl

C29_Witness ==
    /\ Resolved /\ Adaptive
    /\ Cardinality(Cuts) >= 2
    /\ \E idx \in Cuts : SceneStart(idx) > 0 /\ SceneStart(idx) < idx
    /\ SceneStart(Len(value.diffs)) < Len(frames) - 1


\* C25: the difference score is the arithmetic mean over the pixels of
\* |Y1 - Y2| with Y = 0.299R + 0.587G + 0.114B (to within the rounding of
\* the arithmetic: less than one luminance level), the alpha bytes play no
\* part in it, and it is never negative
ExactDelta(p, q) ==
    Abs(299 * (p[1] - q[1]) + 587 * (p[2] - q[2]) + 114 * (p[3] - q[3]))

RECURSIVE ExactSum(_, _, _)
ExactSum(a, b, n) ==
    IF n = 0 THEN 0 ELSE ExactSum(a, b, n - 1) + ExactDelta(a[n], b[n])

\* |x - num / den| <= 1 for a number x
Within(x, num, den) ==
    LET up == IF x[2] < 0 THEN Pow2(0 - x[2]) ELSE 1
        dn == IF x[2] < 0 THEN 1 ELSE Pow2(x[2])
    IN  Abs(x[1] * dn * den - num * up) <= den * up

Opaque(a) == [k \in 1..Len(a) |-> <<a[k][1], a[k][2], a[k][3], 255>>]

C25_MeanAbsLuma ==
    avgDiff # NoScore =>
        /\ Within(avgDiff, ExactSum(prev, curr, Len(prev)), 1000 * Len(prev))
        /\ avgDiff = AvgDiff(Opaque(prev), Opaque(curr))
        /\ FLeq(Zero, avgDiff)

\* two pixels per frame, differing in colour and in alpha
C25_Witness ==
    /\ avgDiff # NoScore
    /\ Len(prev) = 2
    /\ FGreater(avgDiff, Zero)
    /\ \E k \in 1..2 : prev[k][4] # curr[k][4]

\* C30: selectedSceneIds holds at most 2 ids, none twice, in ascending
\* order; toggling a selected id removes it, and toggling a new id while two
\* are selected leaves just that id
Selected == {selectedSceneIds[k] : k \in DOMAIN selectedSceneIds}

\* the id toggled by a step
Toggled(id) ==
    /\ id \in Ids(appScenes)
    /\ selectedSceneIds' = ToggleSelect(selectedSceneIds, id)

C30_Selection ==
    /\ [](/\ Len(selectedSceneIds) <= 2
          /\ Cardinality(Selected) = Len(selectedSceneIds)
          /\ \A k \in 1..(Len(selectedSceneIds) - 1) :
                selectedSceneIds[k] < selectedSceneIds[k + 1])
    /\ [][\A id \in Ids(appScenes) :
            Toggled(id) =>
                /\ id \in Selected =>
                     /\ Len(selectedSceneIds') = Len(selectedSceneIds) - 1
                     /\ \A k \in DOMAIN selectedSceneIds' :
                            selectedSceneIds'[k] \in Selected \ {id}
                /\ (id \notin Selected /\ Len(selectedSceneIds) = 2) =>
                     selectedSceneIds' = <<id>>
                /\ (id \notin Selected /\ Len(selectedSceneIds) < 2) =>
                     {selectedSceneIds'[k] : k \in DOMAIN selectedSceneIds'}
                         = Selected \cup {id}]_vars

\* two ids are selected, and a third card is there to toggle
C30_Witness ==
    /\ selectedSceneIds = <<1, 3>>
    /\ 2 \in Ids(appScenes)

\* the analyzeSceneFrame calls a step starts, and those it settles
Issued == requests' \ requests

Settled == requests \ requests'

\* C27: once handleStopBatch has been called while a batch is running, the
\* batch starts no further analysis; the analysis it was awaiting is
\* recorded on its scene (as an analysis or as an error) when it settles,
\* and the batch does not end before
C27_Cancellation ==
    /\ [][\A r \in Issued :
            r.by \in DOMAIN batches => ~batches[r.by].stopRequested]_vars
    /\ [][\A r \in Settled :
            (r.by # 0 /\ batches[r.by].stopRequested) =>
                \E k \in DOMAIN appScenes' :
                    /\ appScenes'[k].id = r.sceneId
                    /\ appScenes'[k].thumbnailDataUrl = r.image
                    /\ ~appScenes'[k].isAnalyzing
                    /\ appScenes'[k].analysis = r.image \/ appScenes'[k].error]_vars
    /\ [](\A b \in DOMAIN batches :
            batches[b].at = "ended" => \A r \in requests : r.by # b)

\* C28: a batch never starts an analysis of a scene that has an analysis
C28_OnlyUnanalyzed ==
    [][\A r \in Issued :
          r.by # 0 =>
              \A k \in DOMAIN appScenes :
                  appScenes[k].id = r.sceneId =>
                      appScenes[k].analysis = NoAnalysis]_vars

\* the handleAnalyzeAll loops that have not reached their finally block
Active == {b \in DOMAIN batches : batches[b].at # "ended"}

\* C31: at most one handleAnalyzeAll loop is active at any time
C31_OneBatch == Cardinality(Active) <= 1

\* C32: an analysis attached to a scene was made from that scene's own
\* thumbnail
C32_OwnThumbnail ==
    \A k \in DOMAIN appScenes :
        appScenes[k].analysis # NoAnalysis =>
            appScenes[k].analysis = appScenes[k].thumbnailDataUrl

\* C33: the scenes and the progress status belong to the selected file: with
\* no file there are none, and the scenes shown are frames of the file
C33_CurrentFile ==
    /\ \A k \in DOMAIN appScenes : appScenes[k].thumbnailDataUrl[1] = file
    /\ file = 0 => progress = "idle"
    /\ progress \in {"processing_video", "complete", "error"} =>
           file # 0 /\ ~showDurationSelection
    /\ progress = "processing_video" => file \in runs

\* C34: every batch ends, and the step that ends it (the finally block, also
\* run when there is nothing to process) leaves isBatchAnalyzing false,
\* isStopping false and the stop flag cleared
Ends(b) ==
    /\ b \in DOMAIN batches'
    /\ batches'[b].at = "ended"
    /\ b \in DOMAIN batches => batches[b].at # "ended"

NothingToProcess ==
    /\ handleAnalyzeAll
    /\ Unanalyzed(appScenes) = <<>>

C34_BatchEnds ==
    /\ \A b \in 1..MaxBatches : (b \in Active) ~> (b \notin Active)
    /\ [][((\E b \in 1..MaxBatches : Ends(b)) \/ NothingToProcess) =>
            (~isBatchAnalyzing' /\ ~isStopping' /\ ~stopBatchRef')]_vars

\* a batch was ended by a stop request before its last scene
C34_Witness ==
    \E b \in DOMAIN batches :
        /\ batches[b].at = "ended"
        /\ batches[b].stopRequested
        /\ batches[b].i < Len(batches[b].idsToProcess)
        /\ ~isBatchAnalyzing /\ ~isStopping /\ ~stopBatchRef

\* the scenes with other ids are as they were
OthersUnchanged(sceneId) ==
    /\ DOMAIN appScenes' = DOMAIN appScenes
    /\ \A k \in DOMAIN appScenes :
          appScenes[k].id # sceneId => appScenes'[k] = appScenes[k]

\* C35: a handleAnalyzeScene call marks its scene isAnalyzing with the error
\* cleared when it starts; when its request settles the scene is no longer
\* isAnalyzing and shows one outcome, the analysis (and no error) or the
\* error (and the analysis it had); no other scene changes
C35_SceneOutcome ==
    /\ [][\A r \in Issued :
            /\ OthersUnchanged(r.sceneId)
            /\ \E k \in DOMAIN appScenes' :
                /\ appScenes'[k].id = r.sceneId
                /\ appScenes'[k].thumbnailDataUrl = r.image
                /\ appScenes'[k].isAnalyzing
                /\ ~appScenes'[k].error]_vars
    /\ [][\A r \in Settled :
            /\ OthersUnchanged(r.sceneId)
            /\ \E k \in DOMAIN appScenes' :
                /\ appScenes'[k].id = r.sceneId
                /\ appScenes'[k].thumbnailDataUrl = r.image
                /\ ~appScenes'[k].isAnalyzing
                /\ \/ /\ appScenes'[k].analysis = r.image
                      /\ ~appScenes'[k].error
                   \/ /\ appScenes'[k].error
                      /\ appScenes'[k].analysis = appScenes[k].analysis]_vars

\* the generateTimelapsePrompt call a step makes
Sends == sceneImages' # NoCall /\ sceneImages = NoCall

\* C36: a timelapse request over the n scenes between the two selected ids
\* sends min(n, 8) thumbnails, in strictly increasing scene order, the first
\* of the lowest and the last of the highest id; nothing is sent unless
\* exactly two scenes are selected
C36_Timelapse ==
    [][Sends =>
         /\ Len(selectedSceneIds) = 2
         /\ LET lo == Min2(selectedSceneIds[1], selectedSceneIds[2])
                hi == Max2(selectedSceneIds[1], selectedSceneIds[2])
                n == hi - lo + 1
                sent == sceneImages'
            IN  /\ Len(sent) = Min2(n, 8)
                /\ \A j \in DOMAIN sent :
                      sent[j][1] = file /\ sent[j][2] \in lo..hi
                /\ \A j \in 1..(Len(sent) - 1) : sent[j][2] < sent[j + 1][2]
                /\ sent[1][2] = lo
                /\ sent[Len(sent)][2] = hi]_vars

\* a call for a range of more than 8 scenes is awaited
C36_Witness ==
    /\ sceneImages # NoCall
    /\ Len(selectedSceneIds) = 2
    /\ selectedSceneIds[2] - selectedSceneIds[1] >= 9
    /\ Len(sceneImages) = 8

\* the RGB bytes of a buffer
Rgb(a) == [k \in 1..Len(a) |-> <<a[k][1], a[k][2], a[k][3]>>]

\* C37: the score is the same with the two frames swapped, is 0 for frames
\* of identical RGB values, does not depend on the alpha bytes, and never
\* exceeds 255
C37_ScoreAlgebra ==
    avgDiff # NoScore =>
        /\ avgDiff = AvgDiff(curr, prev)
        /\ Rgb(prev) = Rgb(curr) => avgDiff = Zero
        /\ \A a \in {prev, Opaque(prev)}, b \in {curr, Opaque(curr)} :
              AvgDiff(a, b) = avgDiff
        /\ FLeq(avgDiff, FromInt(255))

\* black against white, with different alpha bytes in a second pixel pair
C37_Witness ==
    /\ avgDiff # NoScore
    /\ avgDiff # Zero
    /\ \E k \in DOMAIN prev : Rgb(prev)[k] = <<0, 0, 0>> /\ Rgb(curr)[k] = <<255, 255, 255>>
    /\ \E k \in DOMAIN prev : Rgb(prev)[k] = Rgb(curr)[k] /\ prev[k][4] # curr[k][4]

=========================================================================
